---- MODULE Spec2Model ----
(***************************************************************************)
(* Model of src/src/var/task/handler.py: the AWS Lambda handler that       *)
(* routes a GuardDuty Malware Protection scan result for an S3 object.     *)
(*                                                                         *)
(* A Python string is a finite sequence of atoms.  An atom is either the   *)
(* path separator "/" or a piece of text that holds no separator, so that  *)
(* `in`, split and the f-string concatenations are computed as Python      *)
(* computes them.  Python's None is the value None below.                  *)
(*                                                                         *)
(* One invocation is a sequence of steps; a step ends at each call of a    *)
(* collaborator (Secrets Manager, S3, STS, SNS), which either returns or   *)
(* raises.  The process is long lived: after a response the next event is  *)
(* handled by the same module globals.                                     *)
(***************************************************************************)
EXTENDS Integers, Sequences, FiniteSets, TLC

\* ------------------------------------------------------------------ bounds
MaxKeyLen == 5
MaxSecretLen == 3
MaxClock == 1

\* ------------------------------------------------------------ string model
Sep == "/"

RECURSIVE SeqsUpTo(_, _)
SeqsUpTo(S, n) ==
    IF n = 0 THEN {<<>>}
    ELSE LET shorter == SeqsUpTo(S, n - 1)
         IN  shorter \cup {Append(s, a) : s \in {t \in shorter : Len(t) = n - 1}, a \in S}

None == <<"None">>
Unbound == <<"<unbound local>">>

\* Python: "/" in s
HasSep(s) == \E i \in 1..Len(s) : s[i] = Sep

FirstSep(s) == CHOOSE i \in 1..Len(s) : s[i] = Sep /\ \A j \in 1..(i - 1) : s[j] # Sep

LastSep(s) == CHOOSE i \in 1..Len(s) : s[i] = Sep /\ \A j \in (i + 1)..Len(s) : s[j] # Sep

\* Python: s.split("/", 1), for s that holds a separator
SplitFirst(s) == <<SubSeq(s, 1, FirstSep(s) - 1), SubSeq(s, FirstSep(s) + 1, Len(s))>>

\* Python: s.split("/")[-1]
SplitLast(s) == IF HasSep(s) THEN SubSeq(s, LastSep(s) + 1, Len(s)) ELSE s

\* Python truthiness of a str-or-None value
Truthy(s) == s # None /\ s # <<>>

\* --------------------------------------------------------- the environment
LANDING_BUCKET_NAME == <<"landing-bucket">>
QUARANTINE_BUCKET == <<"quarantine-bucket">>
NOTIFICATION_TOPIC_ARN == <<"default-notification-topic">>
AP_NOTIFICATION_TOPIC_ARN == <<"ap-notification-topic">>

\* ------------------------------------------------------------- the inputs
COMPLETED == <<"COMPLETED">>
SKIPPED == <<"SKIPPED">>
FAILED == <<"FAILED">>
NO_THREATS_FOUND == <<"NO_THREATS_FOUND">>
THREATS_FOUND == <<"THREATS_FOUND">>
ACCESS_DENIED == <<"ACCESS_DENIED">>
UNSUPPORTED == <<"UNSUPPORTED">>
OTHER_STATUS == <<"OTHER_STATUS">>

ScanStatuses == {COMPLETED, SKIPPED, FAILED, OTHER_STATUS, None}
ScanResultStatuses == {NO_THREATS_FOUND, THREATS_FOUND, ACCESS_DENIED, UNSUPPORTED, OTHER_STATUS, None}

EssexPolice == <<"essex-police">>
KeyAtoms == {Sep, "essex-police", "f"}
\* An S3 object key is not empty; a missing objectKey is None.
ObjectKeys == (SeqsUpTo(KeyAtoms, MaxKeyLen) \ {<<>>}) \cup {None}
\* A missing bucketName is None.
BucketNames == {LANDING_BUCKET_NAME, <<"other-bucket">>, None}

Events ==
    [scan_status : ScanStatuses, scan_result_status : ScanResultStatuses,
     bucket_name : BucketNames, object_key : ObjectKeys]

SecretAtoms == {Sep, "b"}
\* A SecretString is not empty.
SecretStrings == SeqsUpTo(SecretAtoms, MaxSecretLen) \ {<<>>}
AccountIds == {<<"123456789012">>}
ErrorTexts == {<<"error text 1">>, <<"error text 2">>}

NoEvent == [scan_status |-> None, scan_result_status |-> None,
            bucket_name |-> None, object_key |-> None]
NoResponse == [statusCode |-> 0, body |-> <<>>]
NoAttempt == [event |-> NoEvent, secret |-> <<>>, Bucket |-> <<>>, Key |-> <<>>]
\* The process runs one invocation at a time: there is no other one.
NoContext == [pc |-> "absent"]
\* An invocation that has not started: lambda_handler is not running.
IdleContext ==
    [pc |-> "idle", event |-> NoEvent, supplier |-> Unbound, file_name |-> Unbound,
     target_bucket |-> Unbound, bucket_prefix |-> Unbound,
     destination_object_key |-> Unbound, topic_arn |-> Unbound,
     calls |-> <<>>, response |-> NoResponse]

\* -------------------------------------------------------------- the state
VARIABLES
    pc,                      \* where the invocation stands
    event,                   \* the fields lambda_handler extracts from the event
    supplier,                \* locals of the process_* function that is running
    file_name,
    target_bucket,
    bucket_prefix,
    destination_object_key,
    topic_arn,
    calls,                   \* the collaborator calls this invocation has issued
    response,                \* what lambda_handler returned
    timestamp_epoch,         \* module global, set when the module is imported
    now,                     \* the wall clock, in epoch seconds
    first,                   \* the attempt whose event the runtime is to deliver again
    other                    \* the invocation that is in flight beside this one

locals == <<supplier, file_name, target_bucket, bucket_prefix, destination_object_key, topic_arn>>
globals == <<timestamp_epoch, now>>
aside == <<first, other>>
vars == <<pc, event, locals, calls, response, globals, aside>>

\* The events of the runs with two invocations in flight: every status pair,
\* on three keys of the landing bucket.
ConcurrentKeys == {<<"f", Sep, "f">>, <<"essex-police", Sep, "f">>, <<"f">>}
ConcurrentEvents ==
    [scan_status : ScanStatuses, scan_result_status : ScanResultStatuses,
     bucket_name : {LANDING_BUCKET_NAME}, object_key : ConcurrentKeys]

\* The events the runtime may deliver.
EventsOffered == IF other = NoContext THEN Events ELSE ConcurrentEvents

\* ------------------------------------------------- lambda_handler's dispatch
\* Branch with line 99 an if of its own: a SKIPPED event that neither inner
\* test takes goes on to process_failed_scan.
Branch_SkippedFallsThrough(ev) ==
    IF ev.scan_status = COMPLETED THEN
        IF ev.scan_result_status = NO_THREATS_FOUND THEN "process_no_threats_found_file"
        ELSE IF ev.scan_result_status = THREATS_FOUND THEN "process_threats_found_file"
        ELSE "unknown"
    ELSE IF ev.scan_status = SKIPPED THEN
        IF ev.scan_result_status = ACCESS_DENIED THEN "process_access_denied"
        ELSE IF ev.scan_result_status = UNSUPPORTED THEN "process_unsupported_file"
        ELSE "process_failed_scan"
    ELSE IF ev.scan_status = FAILED THEN "process_failed_scan"
    ELSE "unknown"

\* Branch with line 92 calling the transfer for an unsupported file.
Branch_UnsupportedTransferred(ev) ==
    IF ev.scan_status = COMPLETED THEN
        IF ev.scan_result_status = NO_THREATS_FOUND THEN "process_no_threats_found_file"
        ELSE IF ev.scan_result_status = THREATS_FOUND THEN "process_threats_found_file"
        ELSE "unknown"
    ELSE IF ev.scan_status = SKIPPED THEN
        IF ev.scan_result_status = ACCESS_DENIED THEN "process_access_denied"
        ELSE IF ev.scan_result_status = UNSUPPORTED THEN "process_no_threats_found_file"
        ELSE "unknown"
    ELSE IF ev.scan_status = FAILED THEN "process_failed_scan"
    ELSE "unknown"

\* The branch of lambda_handler's if/elif chain an event takes.
Branch(ev) ==
    IF ev.scan_status = COMPLETED THEN
        IF ev.scan_result_status = NO_THREATS_FOUND THEN "process_no_threats_found_file"
        ELSE IF ev.scan_result_status = THREATS_FOUND THEN "process_threats_found_file"
        ELSE "unknown"
    ELSE IF ev.scan_status = SKIPPED THEN
        IF ev.scan_result_status = ACCESS_DENIED THEN "process_access_denied"
        ELSE IF ev.scan_result_status = UNSUPPORTED THEN "process_unsupported_file"
        ELSE "unknown"
    ELSE IF ev.scan_status = FAILED THEN "process_failed_scan"
    ELSE "unknown"

\* The response lambda_handler returns once the branch's function has returned.
BranchResponse(ev) ==
    LET b == Branch(ev)
        key == ev.object_key
        bucket == ev.bucket_name
    IN  IF b = "process_no_threats_found_file" THEN
            [statusCode |-> 200,
             body |-> <<"Successfully processed - NO THREATS FOUND in file: ">> \o key
                      \o <<" in bucket: ">> \o bucket]
        ELSE IF b = "process_threats_found_file" THEN
            [statusCode |-> 200,
             body |-> <<"Successfully processed - THREATS FOUND in file: ">> \o key
                      \o <<" in bucket: ">> \o bucket]
        ELSE IF b = "process_access_denied" THEN
            [statusCode |-> 403,
             body |-> <<"Error: Access denied to file '">> \o key \o <<"' in '">>
                      \o bucket \o <<"'.">>]
        ELSE IF b = "process_unsupported_file" THEN
            [statusCode |-> 415,
             body |-> <<"Error: File type is unsupported. Filename: '">> \o key \o <<"'">>]
        ELSE IF b = "process_failed_scan" THEN
            [statusCode |-> 500,
             body |-> <<"Error: Scan failed on file '">> \o key \o <<"'.">>]
        ELSE
            [statusCode |-> 200,
             body |-> <<"Successfully processed scan status: ">> \o ev.scan_status
                      \o <<", result: ">> \o ev.scan_result_status]

\* ErrorResponse with the failure acknowledged as handled.
ErrorResponse_Acknowledged(text) ==
    [statusCode |-> 200, body |-> <<"Error processing event: ">> \o text]

\* The except clause: str(e) goes into the body.
ErrorResponse(text) ==
    [statusCode |-> 500, body |-> <<"Error processing event: ">> \o text]

TypeErrorNotIterable == <<"argument of type 'NoneType' is not iterable">>
UnboundLocalError(name) ==
    <<"cannot access local variable '", name, "' where it is not associated with a value">>

\* One collaborator call: what was asked, whether it returned (ok) or raised,
\* and the value it returned.
Call(api, args, ok, result) == [api |-> api, args |-> args, ok |-> ok, result |-> result]

\* Raise with no except clause around the dispatch: the exception leaves
\* lambda_handler and nothing is returned.
Raise_Escapes(text) ==
    /\ pc' = "crashed"
    /\ UNCHANGED response

Raise(text) ==
    /\ pc' = "done"
    /\ response' = ErrorResponse(text)

Return ==
    /\ pc' = "done"
    /\ response' = BranchResponse(event)

\* Receive with the land timestamp refreshed at every dispatch through a
\* `global timestamp_epoch` statement.
Receive_RefreshTimestamp(ev, branch) ==
    /\ Branch(ev) = branch
    /\ event' = ev
    /\ calls' = <<>>
    /\ timestamp_epoch' = now
    /\ UNCHANGED <<now, aside>>

\* lambda_handler up to the dispatch: the fields of the event are extracted and
\* the branch's function is entered.
Receive(ev, branch) ==
    /\ Branch(ev) = branch
    /\ event' = ev
    /\ calls' = <<>>
    /\ UNCHANGED <<globals, aside>>

\* ------------------------------------------- process_no_threats_found_file
\* ParseObjectKey without the flattening of lines 150-151: the file name keeps
\* the folders under the supplier.
ParseObjectKey_Unflattened(object_key) ==
    IF object_key = None THEN
        [raised |-> TypeErrorNotIterable, supplier |-> Unbound, file_name |-> Unbound]
    ELSE IF HasSep(object_key) THEN
        [raised |-> None,
         supplier |-> SplitFirst(object_key)[1],
         file_name |-> SplitFirst(object_key)[2]]
    ELSE
        [raised |-> UnboundLocalError("uploaded_object"),
         supplier |-> Unbound, file_name |-> Unbound]

\* ParseObjectKey with supplier initialised to None as the notifying functions
\* do, and the whole key as the file name: a key with no separator goes on.
ParseObjectKey_Lenient(object_key) ==
    IF object_key = None THEN
        [raised |-> TypeErrorNotIterable, supplier |-> Unbound, file_name |-> Unbound]
    ELSE IF HasSep(object_key) THEN
        [raised |-> None,
         supplier |-> SplitFirst(object_key)[1],
         file_name |-> SplitLast(SplitFirst(object_key)[2])]
    ELSE
        [raised |-> None, supplier |-> None, file_name |-> object_key]

\* Lines 143-154: supplier and file name from the object key.  A key with no
\* separator leaves supplier and uploaded_object unbound, and the read of
\* uploaded_object on line 150 raises.
ParseObjectKey(object_key) ==
    IF object_key = None THEN
        [raised |-> TypeErrorNotIterable, supplier |-> Unbound, file_name |-> Unbound]
    ELSE IF HasSep(object_key) THEN
        [raised |-> None,
         supplier |-> SplitFirst(object_key)[1],
         file_name |-> SplitLast(SplitFirst(object_key)[2])]
    ELSE
        [raised |-> UnboundLocalError("uploaded_object"),
         supplier |-> Unbound, file_name |-> Unbound]

SecretId(s) == <<"ingestion", Sep, "sftp", Sep>> \o s \o <<Sep, "target-bucket">>

\* Lines 168-171: the suppliers whose keys carry the land timestamp.
TimePartitioned(s) == s \in {EssexPolice}

\* Line 170: the key of a time-partitioned supplier.
TimestampKey(prefix, ts, name) ==
    prefix \o <<Sep, "file_land_timestamp=", ToString(ts), Sep>> \o name

\* Line 162: the key under the prefix of the target-bucket value.
PrefixedKey(prefix, name) == prefix \o <<Sep>> \o name

\* Lines 160-171: destination bucket and key from the secret's value.  A value
\* with no separator leaves bucket_prefix unbound, and the read of
\* bucket_prefix on line 166 raises.
ResolveDestination(object_key, sup, name, secret, ts) ==
    LET split == HasSep(secret)
        bucket == IF split THEN SplitFirst(secret)[1] ELSE secret
        prefix == IF split THEN SplitFirst(secret)[2] ELSE Unbound
        key == IF split THEN PrefixedKey(prefix, name) ELSE object_key
    IN  IF prefix = Unbound THEN
            [raised |-> UnboundLocalError("bucket_prefix"),
             target_bucket |-> bucket, bucket_prefix |-> prefix,
             destination_object_key |-> key]
        ELSE
            [raised |-> None,
             target_bucket |-> bucket, bucket_prefix |-> prefix,
             destination_object_key |->
                 IF TimePartitioned(sup) THEN TimestampKey(prefix, ts, name) ELSE key]

\* Line 173
CopySource(object_key) == [Bucket |-> LANDING_BUCKET_NAME, Key |-> object_key]

\* AfterCopy with the exception of copy_object swallowed.
AfterCopy_Swallowed(ok) == "delete_object"

\* Lines 175-186: what follows the copy_object call.  An exception raised by
\* copy_object leaves the function; only a copy that returned is followed by
\* the delete.
AfterCopy(ok) == IF ok THEN "delete_object" ELSE "raise"

\* Lines 62-64 and 137-154: process_no_threats_found_file is entered with the
\* event's bucket name and object key.
EnterNoThreatsFound(ev) ==
    /\ Receive(ev, "process_no_threats_found_file")
    /\ LET parsed == ParseObjectKey(ev.object_key)
       IN  /\ supplier' = parsed.supplier
           /\ file_name' = parsed.file_name
           /\ IF parsed.raised = None
              THEN pc' = "get_secret_value" /\ UNCHANGED response
              ELSE Raise(parsed.raised)
    /\ UNCHANGED <<target_bucket, bucket_prefix, destination_object_key, topic_arn>>

\* What the secret store may hold for the supplier: any value, and at a
\* re-delivery the value the first attempt read (the supplier's configuration
\* has not changed).
SecretsStored == IF first = NoAttempt THEN SecretStrings ELSE {first.secret}

InvokeNoThreatsFound ==
    /\ pc = "idle"
    /\ \E ev \in EventsOffered : EnterNoThreatsFound(ev)

GetSecretValue ==
    /\ pc = "get_secret_value"
    /\ \/ \E secret \in SecretsStored :
            LET dest == ResolveDestination(event.object_key, supplier, file_name,
                                           secret, timestamp_epoch)
            IN  /\ calls' = Append(calls, Call("get_secret_value",
                                               [SecretId |-> SecretId(supplier)], TRUE, secret))
                /\ target_bucket' = dest.target_bucket
                /\ bucket_prefix' = dest.bucket_prefix
                /\ destination_object_key' = dest.destination_object_key
                /\ IF dest.raised = None
                   THEN pc' = "copy_object" /\ UNCHANGED response
                   ELSE Raise(dest.raised)
       \/ \E text \in ErrorTexts :
            /\ calls' = Append(calls, Call("get_secret_value",
                                           [SecretId |-> SecretId(supplier)], FALSE, <<>>))
            /\ Raise(text)
            /\ UNCHANGED <<target_bucket, bucket_prefix, destination_object_key>>
    /\ UNCHANGED <<event, supplier, file_name, topic_arn, globals, aside>>

CopyObject ==
    /\ pc = "copy_object"
    /\ \E ok \in BOOLEAN :
        /\ calls' = Append(calls, Call("copy_object",
                                       [Bucket |-> target_bucket,
                                        CopySource |-> CopySource(event.object_key),
                                        Key |-> destination_object_key,
                                        ACL |-> "bucket-owner-full-control"], ok, <<>>))
        /\ IF AfterCopy(ok) = "raise"
           THEN \E text \in ErrorTexts : Raise(text)
           ELSE pc' = AfterCopy(ok) /\ UNCHANGED response
    /\ UNCHANGED <<event, locals, globals, aside>>

DeleteObject ==
    /\ pc = "delete_object"
    /\ \E ok \in BOOLEAN :
        /\ calls' = Append(calls, Call("delete_object",
                                       [Bucket |-> LANDING_BUCKET_NAME,
                                        Key |-> event.object_key], ok, <<>>))
        /\ IF ok THEN Return ELSE \E text \in ErrorTexts : Raise(text)
    /\ UNCHANGED <<event, locals, globals, aside>>

\* ------------------------------------------------------------ notifications
\* SupplierOf with the whole key taken as the supplier when it holds no
\* separator.
SupplierOf_WholeKey(object_key) ==
    IF object_key = None THEN [raised |-> TypeErrorNotIterable, supplier |-> None]
    ELSE IF HasSep(object_key) THEN [raised |-> None, supplier |-> SplitFirst(object_key)[1]]
    ELSE [raised |-> None, supplier |-> object_key]

\* Lines 210-212, 254-256, 276-278: the supplier an uploader notice goes to.
SupplierOf(object_key) ==
    IF object_key = None THEN [raised |-> TypeErrorNotIterable, supplier |-> None]
    ELSE IF HasSep(object_key) THEN [raised |-> None, supplier |-> SplitFirst(object_key)[1]]
    ELSE [raised |-> None, supplier |-> None]

\* generate_topic_arn, line 132
SupplierTopicArn(account_id, sup) ==
    <<"arn:aws:sns:eu-west-2:">> \o account_id \o <<":transfer-service-">> \o sup

\* ap_topic_arn read from the uploaders' default topic variable.
ap_topic_arn_Default == NOTIFICATION_TOPIC_ARN

\* Lines 226 and 240
ap_topic_arn == AP_NOTIFICATION_TOPIC_ARN

UploaderSubject(branch) ==
    IF branch = "process_threats_found_file" THEN "Malware Detection Alert"
    ELSE IF branch = "process_failed_scan"
         THEN "Analytical Platform Ingestion: Failed Malware Scan Alert"
    ELSE "Analytical Platform Ingestion: Unsupported File Alert"

UploaderMessage(branch, object_key) ==
    IF branch = "process_threats_found_file" THEN
        <<"Automated Malware Protection has detected malware in the file '">> \o object_key
        \o <<"'. This file has NOT been transferred, please contact us via Support">>
    ELSE IF branch = "process_failed_scan" THEN
        <<"The Malware Protection for S3 scan process on file ">> \o object_key
        \o <<" has failed. Please retry by uploading your file again.">>
    ELSE <<"This file type is not supported and cannot be scanned.">>

OperationsSubject(branch) ==
    IF branch = "process_threats_found_file" THEN "Malware Detection Alert"
    ELSE "Analytical Platform Ingestion: Access Denied Alert"

OperationsMessage(branch, object_key) ==
    IF branch = "process_threats_found_file" THEN
        <<"Automated Malware Protection has detected malware in the file '">> \o object_key
        \o <<"'. This file has NOT been transferred, The user has been notified.">>
    ELSE
        <<"The Malware Protection for S3 scan process on file ">> \o object_key
        \o <<" has failed due to an 'Access Denied' error. The user has not been informed">>

\* AfterUploaderPublish without the team's notice.
AfterUploaderPublish_UploaderOnly(branch) == "return"

\* AfterUploaderPublish with the team's notice after every uploader notice.
AfterUploaderPublish_TeamAlways(branch) == "publish_ap"

\* What follows the uploader's publish: process_threats_found_file goes on to
\* the Analytical Platform team's publish (lines 225-234), process_failed_scan
\* and process_unsupported_file return.
AfterUploaderPublish(branch) ==
    IF branch = "process_threats_found_file" THEN "publish_ap" ELSE "return"

\* Entry of a function that notifies the uploader, up to generate_topic_arn's
\* test of the supplier (line 130).
NotifyUploader(ev) ==
    LET s == SupplierOf(ev.object_key)
    IN  /\ supplier' = s.supplier
        /\ IF s.raised # None THEN Raise(s.raised) /\ UNCHANGED topic_arn
           ELSE IF Truthy(s.supplier)
           THEN pc' = "get_caller_identity" /\ UNCHANGED <<topic_arn, response>>
           ELSE /\ topic_arn' = NOTIFICATION_TOPIC_ARN
                /\ pc' = "publish"
                /\ UNCHANGED response
        /\ UNCHANGED <<file_name, target_bucket, bucket_prefix, destination_object_key>>

\* Lines 193-214.  The quarantine copy and delete (lines 202-207) are commented
\* out in the source: no object-store call is issued.
InvokeThreatsFound ==
    /\ pc = "idle"
    /\ \E ev \in EventsOffered :
        /\ Receive(ev, "process_threats_found_file")
        /\ NotifyUploader(ev)

InvokeFailedScan ==
    /\ pc = "idle"
    /\ \E ev \in EventsOffered :
        /\ Receive(ev, "process_failed_scan")
        /\ NotifyUploader(ev)

InvokeUnsupportedFile ==
    /\ pc = "idle"
    /\ \E ev \in EventsOffered :
        /\ Receive(ev, "process_unsupported_file")
        /\ NotifyUploader(ev)

InvokeAccessDenied ==
    /\ pc = "idle"
    /\ \E ev \in EventsOffered :
        /\ Receive(ev, "process_access_denied")
        /\ pc' = "publish_ap"
        /\ UNCHANGED <<locals, response>>

\* Lines 80-81 and 105-113: no branch's function runs.
InvokeUnknown ==
    /\ pc = "idle"
    /\ \E ev \in EventsOffered :
        /\ Receive(ev, "unknown")
        /\ pc' = "done"
        /\ response' = BranchResponse(ev)
        /\ UNCHANGED locals

GetCallerIdentity ==
    /\ pc = "get_caller_identity"
    /\ \/ \E account_id \in AccountIds :
            /\ calls' = Append(calls, Call("get_caller_identity", <<>>, TRUE, account_id))
            /\ topic_arn' = SupplierTopicArn(account_id, supplier)
            /\ pc' = "publish"
            /\ UNCHANGED response
       \/ \E text \in ErrorTexts :
            /\ calls' = Append(calls, Call("get_caller_identity", <<>>, FALSE, <<>>))
            /\ Raise(text)
            /\ UNCHANGED topic_arn
    /\ UNCHANGED <<event, supplier, file_name, target_bucket, bucket_prefix,
                   destination_object_key, globals, aside>>

Publish ==
    /\ pc = "publish"
    /\ \E ok \in BOOLEAN :
        /\ calls' = Append(calls, Call("publish",
                                       [TopicArn |-> topic_arn,
                                        Subject |-> UploaderSubject(Branch(event)),
                                        Message |-> UploaderMessage(Branch(event),
                                                                    event.object_key)], ok, <<>>))
        /\ IF ~ok THEN \E text \in ErrorTexts : Raise(text)
           ELSE IF AfterUploaderPublish(Branch(event)) = "return" THEN Return
           ELSE pc' = AfterUploaderPublish(Branch(event)) /\ UNCHANGED response
    /\ UNCHANGED <<event, locals, globals, aside>>

PublishAP ==
    /\ pc = "publish_ap"
    /\ \E ok \in BOOLEAN :
        /\ calls' = Append(calls, Call("publish",
                                       [TopicArn |-> ap_topic_arn,
                                        Subject |-> OperationsSubject(Branch(event)),
                                        Message |-> OperationsMessage(Branch(event),
                                                                      event.object_key)], ok, <<>>))
        /\ IF ok THEN Return ELSE \E text \in ErrorTexts : Raise(text)
    /\ UNCHANGED <<event, locals, globals, aside>>

\* ------------------------------------------------------- the process's life
\* The response has gone back to the Lambda runtime; the process waits for
\* the next event.  The module globals stay as they are.
Finish ==
    /\ pc = "done"
    /\ pc' = "idle"
    /\ event' = NoEvent
    /\ supplier' = Unbound
    /\ file_name' = Unbound
    /\ target_bucket' = Unbound
    /\ bucket_prefix' = Unbound
    /\ destination_object_key' = Unbound
    /\ topic_arn' = Unbound
    /\ calls' = <<>>
    /\ response' = NoResponse
    /\ first' = NoAttempt
    /\ UNCHANGED <<globals, other>>

Tick ==
    /\ pc \in {"idle", "awaiting_redelivery"}
    /\ now < MaxClock
    /\ now' = now + 1
    /\ UNCHANGED <<pc, event, locals, calls, response, timestamp_epoch, aside>>

\* The runtime starts a new process for the next event: the module is imported
\* again (lines 12-19) and timestamp_epoch is the time of that import.
ColdStart ==
    /\ pc \in {"idle", "awaiting_redelivery"}
    /\ other.pc \in {"absent", "idle"}
    /\ timestamp_epoch' = now
    /\ UNCHANGED <<pc, event, locals, calls, response, now, aside>>

\* Lines 12-19: the module is imported; timestamp_epoch is the time of import.
Init ==
    /\ pc = "idle"
    /\ event = NoEvent
    /\ supplier = Unbound
    /\ file_name = Unbound
    /\ target_bucket = Unbound
    /\ bucket_prefix = Unbound
    /\ destination_object_key = Unbound
    /\ topic_arn = Unbound
    /\ calls = <<>>
    /\ response = NoResponse
    /\ now \in 0..MaxClock
    /\ timestamp_epoch = now
    /\ first = NoAttempt
    /\ other = NoContext

Next ==
    \/ InvokeNoThreatsFound
    \/ GetSecretValue
    \/ CopyObject
    \/ DeleteObject
    \/ InvokeThreatsFound
    \/ InvokeFailedScan
    \/ InvokeUnsupportedFile
    \/ InvokeAccessDenied
    \/ InvokeUnknown
    \/ GetCallerIdentity
    \/ Publish
    \/ PublishAP
    \/ Finish
    \/ Tick
    \/ ColdStart

Spec == Init /\ [][Next]_vars

\* ------------------------------------------------------------- re-delivery
\* An invocation that copied the object and then failed returned a 500; the
\* runtime keeps the event to deliver it again.  The destination of the first
\* such attempt is remembered.
AwaitRedelivery ==
    /\ pc = "done"
    /\ Branch(event) = "process_no_threats_found_file"
    /\ response.statusCode = 500
    /\ \E g \in 1..Len(calls), c \in 1..Len(calls) :
          /\ calls[g].api = "get_secret_value"
          /\ calls[c].api = "copy_object"
          /\ calls[c].ok
          /\ first' = IF first # NoAttempt THEN first
                      ELSE [event |-> event, secret |-> calls[g].result,
                            Bucket |-> calls[c].args.Bucket, Key |-> calls[c].args.Key]
    /\ pc' = "awaiting_redelivery"
    /\ event' = NoEvent
    /\ supplier' = Unbound
    /\ file_name' = Unbound
    /\ target_bucket' = Unbound
    /\ bucket_prefix' = Unbound
    /\ destination_object_key' = Unbound
    /\ topic_arn' = Unbound
    /\ calls' = <<>>
    /\ response' = NoResponse
    /\ UNCHANGED <<globals, other>>

\* The runtime invokes lambda_handler with the same event again.
Redeliver ==
    /\ pc = "awaiting_redelivery"
    /\ EnterNoThreatsFound(first.event)

RetryNext ==
    \/ Next
    \/ AwaitRedelivery
    \/ Redeliver

RetrySpec == Init /\ [][RetryNext]_vars

\* ----------------------------------------------------- concurrent dispatch
\* Two invocations are in flight in the process: the one whose step is being
\* taken and the other one.  Switch hands the processor to the other one; the
\* module globals belong to the process and are shared.
Context ==
    [pc |-> pc, event |-> event, supplier |-> supplier, file_name |-> file_name,
     target_bucket |-> target_bucket, bucket_prefix |-> bucket_prefix,
     destination_object_key |-> destination_object_key, topic_arn |-> topic_arn,
     calls |-> calls, response |-> response]

Switch ==
    /\ other' = Context
    /\ pc' = other.pc
    /\ event' = other.event
    /\ supplier' = other.supplier
    /\ file_name' = other.file_name
    /\ target_bucket' = other.target_bucket
    /\ bucket_prefix' = other.bucket_prefix
    /\ destination_object_key' = other.destination_object_key
    /\ topic_arn' = other.topic_arn
    /\ calls' = other.calls
    /\ response' = other.response
    /\ UNCHANGED <<globals, first>>

ConcurrentInit ==
    /\ pc = "idle"
    /\ event = NoEvent
    /\ supplier = Unbound
    /\ file_name = Unbound
    /\ target_bucket = Unbound
    /\ bucket_prefix = Unbound
    /\ destination_object_key = Unbound
    /\ topic_arn = Unbound
    /\ calls = <<>>
    /\ response = NoResponse
    /\ now \in 0..MaxClock
    /\ timestamp_epoch = now
    /\ first = NoAttempt
    /\ other = IdleContext

ConcurrentNext ==
    \/ Next
    \/ Switch

ConcurrentSpec == ConcurrentInit /\ [][ConcurrentNext]_vars

\* =================================================================== claims
Done == pc = "done"
InBranch(b) == pc # "idle" /\ Branch(event) = b
AllOk == \A i \in 1..Len(calls) : calls[i].ok
CallsTo(api) == {i \in 1..Len(calls) : calls[i].api = api}
IsPublish(c) == c.api = "publish"
Published == SelectSeq(calls, IsPublish)
\* The object key holds a supplier segment: it is a string with a separator.
WellFormedKey == event.object_key # None /\ HasSep(event.object_key)
\* The first path segment of the object key.
FirstSegment(key) == SubSeq(key, 1, FirstSep(key) - 1)
\* The last path segment of the object key.
BaseName(key) == SubSeq(key, LastSep(key) + 1, Len(key))
\* The channel of the uploader: scoped to the supplier when the key names one,
\* the default notification topic otherwise.
UploaderChannels(key) ==
    IF HasSep(key) /\ FirstSegment(key) # <<>>
    THEN {<<"arn:aws:sns:eu-west-2:">> \o a \o <<":transfer-service-">> \o FirstSegment(key)
          : a \in AccountIds}
    ELSE {NOTIFICATION_TOPIC_ARN}

\* C1: on a Clean event a delete is issued only after a copy that succeeded;
\* when the copy fails no delete is issued and the response is a 500.
C1_DeleteOnlyAfterCopy ==
    InBranch("process_no_threats_found_file") =>
        /\ \A i \in CallsTo("delete_object") :
              \E j \in CallsTo("copy_object") : j < i /\ calls[j].ok
        /\ \A j \in CallsTo("copy_object") :
              ~calls[j].ok =>
                  /\ CallsTo("delete_object") = {}
                  /\ Done
                  /\ response.statusCode = 500

C1_Witness ==
    /\ InBranch("process_no_threats_found_file")
    /\ Done
    /\ \E j \in CallsTo("copy_object") : ~calls[j].ok

\* C2: with every collaborator call succeeding and a well formed key the status
\* code is 200 for Clean and Infected, 403 for AccessDenied, 415 for
\* Unsupported and 500 for ScanFailed; every status code returned is one of
\* 200, 403, 415, 500.
C2_StatusCodes ==
    Done =>
        /\ response.statusCode \in {200, 403, 415, 500}
        /\ (AllOk /\ WellFormedKey) =>
              /\ (event.scan_status = COMPLETED
                    /\ event.scan_result_status \in {NO_THREATS_FOUND, THREATS_FOUND})
                 => response.statusCode = 200
              /\ (event.scan_status = SKIPPED /\ event.scan_result_status = ACCESS_DENIED)
                 => response.statusCode = 403
              /\ (event.scan_status = SKIPPED /\ event.scan_result_status = UNSUPPORTED)
                 => response.statusCode = 415
              /\ event.scan_status = FAILED => response.statusCode = 500

\* C3: on an Infected event exactly one copy into the quarantine bucket and
\* then exactly one delete of the original are issued, both before any
\* notification is published.
C3_QuarantineBeforeNotification ==
    (InBranch("process_threats_found_file") /\ CallsTo("publish") # {}) =>
        \E c \in CallsTo("copy_object"), d \in CallsTo("delete_object") :
            /\ CallsTo("copy_object") = {c}
            /\ CallsTo("delete_object") = {d}
            /\ calls[c].args.Bucket = QUARANTINE_BUCKET
            /\ c < d
            /\ \A p \in CallsTo("publish") : d < p

\* C4: an Infected event whose collaborator calls all succeed publishes exactly
\* two notifications, the first to the uploader's channel and the second to
\* the operations channel, and returns 200; no other outcome publishes more
\* than one notification.
C4_TwoNotificationsForInfected ==
    /\ (InBranch("process_threats_found_file") /\ Done /\ AllOk
          /\ event.object_key # None) =>
          /\ Len(Published) = 2
          /\ Published[1].args.TopicArn \in UploaderChannels(event.object_key)
          /\ Published[2].args.TopicArn = AP_NOTIFICATION_TOPIC_ARN
          /\ response.statusCode = 200
    /\ ~InBranch("process_threats_found_file") => Len(Published) <= 1

C4_Witness ==
    /\ InBranch("process_threats_found_file")
    /\ Done
    /\ AllOk
    /\ WellFormedKey
    /\ Len(Published) = 2

\* C5 as claimed: for a Clean event whose target-bucket value holds a
\* separator, the copy goes to the bucket before the first separator, under
\* the key  rest of the value + "/" + last segment of the object key.
C5_PrefixedDestination ==
    InBranch("process_no_threats_found_file") =>
        \A g \in CallsTo("get_secret_value"), c \in CallsTo("copy_object") :
            (calls[g].ok /\ HasSep(calls[g].result)) =>
                /\ calls[c].args.Bucket = FirstSegment(calls[g].result)
                /\ calls[c].args.Key =
                      SubSeq(calls[g].result, FirstSep(calls[g].result) + 1,
                             Len(calls[g].result))
                      \o <<Sep>> \o BaseName(event.object_key)

\* C5 as amended: the same, for a supplier that is not essex-police, the
\* supplier with the time-partitioned layout.
C5_PrefixedDestinationDefaultLayout ==
    (InBranch("process_no_threats_found_file") /\ WellFormedKey
        /\ FirstSegment(event.object_key) # EssexPolice) => C5_PrefixedDestination

\* A key with a folder under the supplier has been copied.
C5_Witness ==
    /\ InBranch("process_no_threats_found_file")
    /\ WellFormedKey
    /\ FirstSegment(event.object_key) # EssexPolice
    /\ FirstSep(event.object_key) # LastSep(event.object_key)
    /\ BaseName(event.object_key) # <<>>
    /\ CallsTo("copy_object") # {}

\* C6: for a Clean event whose target-bucket value holds no separator, the
\* object is copied to the bucket the value names under its own key, the
\* source is deleted and the response is a 200.
C6_UnprefixedDestination ==
    (InBranch("process_no_threats_found_file") /\ Done /\ AllOk
        /\ \E g \in CallsTo("get_secret_value") : ~HasSep(calls[g].result)) =>
        /\ \E g \in CallsTo("get_secret_value"), c \in CallsTo("copy_object"),
              d \in CallsTo("delete_object") :
              /\ calls[c].args.Bucket = calls[g].result
              /\ calls[c].args.Key = event.object_key
              /\ c < d
        /\ response.statusCode = 200

\* C7: a Clean event whose object key holds no separator gets a 500 and no
\* supplier lookup, copy or delete.
C7_MalformedKeyRejected ==
    (InBranch("process_no_threats_found_file") /\ event.object_key # None
        /\ ~HasSep(event.object_key)) =>
        /\ Done
        /\ response.statusCode = 500
        /\ calls = <<>>

C7_Witness ==
    /\ InBranch("process_no_threats_found_file")
    /\ event.object_key # None
    /\ ~HasSep(event.object_key)
    /\ Done

\* C8: when a collaborator call fails, the body of the response is the same
\* whatever the text of the failure.
C8_GenericErrorBody ==
    (Done /\ calls # <<>> /\ ~calls[Len(calls)].ok) =>
        \A text \in ErrorTexts : response.body = ErrorResponse(text).body

\* C9: an AccessDenied event publishes one notification, to the operations
\* channel and not to the uploader's, and returns 403.
C9_AccessDeniedToOperationsOnly ==
    InBranch("process_access_denied") =>
        /\ \A i \in 1..Len(calls) :
              /\ calls[i].api = "publish"
              /\ calls[i].args.TopicArn = AP_NOTIFICATION_TOPIC_ARN
              /\ calls[i].args.TopicArn \notin UploaderChannels(event.object_key)
        /\ Len(calls) <= 1
        /\ Done => Len(calls) = 1
        /\ (Done /\ AllOk) => response.statusCode = 403

C9_Witness ==
    /\ InBranch("process_access_denied")
    /\ Done
    /\ AllOk
    /\ Len(Published) = 1

\* C10: a ScanFailed or Unsupported event publishes one notification, to the
\* uploader's channel and none to the operations channel, and returns 500 for
\* ScanFailed and 415 for Unsupported.
C10_UploaderOnly ==
    ((InBranch("process_failed_scan") \/ InBranch("process_unsupported_file"))
        /\ event.object_key # None) =>
        /\ Len(Published) <= 1
        /\ \A i \in 1..Len(Published) :
              /\ Published[i].args.TopicArn \in UploaderChannels(event.object_key)
              /\ Published[i].args.TopicArn # AP_NOTIFICATION_TOPIC_ARN
        /\ (Done /\ AllOk) =>
              /\ Len(Published) = 1
              /\ response.statusCode =
                    IF Branch(event) = "process_failed_scan" THEN 500 ELSE 415

C10_Witness ==
    /\ InBranch("process_unsupported_file")
    /\ Done
    /\ AllOk
    /\ WellFormedKey
    /\ Len(Published) = 1

\* The outcome the status pair of an event names.
Outcome(ev) ==
    IF ev.scan_status = COMPLETED /\ ev.scan_result_status = NO_THREATS_FOUND THEN "Clean"
    ELSE IF ev.scan_status = COMPLETED /\ ev.scan_result_status = THREATS_FOUND THEN "Infected"
    ELSE IF ev.scan_status = SKIPPED /\ ev.scan_result_status = ACCESS_DENIED THEN "AccessDenied"
    ELSE IF ev.scan_status = SKIPPED /\ ev.scan_result_status = UNSUPPORTED THEN "Unsupported"
    ELSE IF ev.scan_status = FAILED THEN "ScanFailed"
    ELSE "Unknown"
\* An invocation is in hand: lambda_handler has been entered.
Entered == pc \notin {"idle", "awaiting_redelivery"}
\* The collaborator calls and the notice subjects of each outcome's function.
ApisOf(outcome) ==
    IF outcome = "Clean" THEN {"get_secret_value", "copy_object", "delete_object"}
    ELSE IF outcome \in {"Infected", "ScanFailed", "Unsupported"}
         THEN {"get_caller_identity", "publish"}
    ELSE IF outcome = "AccessDenied" THEN {"publish"}
    ELSE {}
SubjectsOf(outcome) ==
    IF outcome = "Infected" THEN {"Malware Detection Alert"}
    ELSE IF outcome = "ScanFailed"
         THEN {"Analytical Platform Ingestion: Failed Malware Scan Alert"}
    ELSE IF outcome = "Unsupported"
         THEN {"Analytical Platform Ingestion: Unsupported File Alert"}
    ELSE IF outcome = "AccessDenied"
         THEN {"Analytical Platform Ingestion: Access Denied Alert"}
    ELSE {}

\* C11: a status pair that names none of the five outcomes (a missing status
\* too) is acknowledged with a 200 and no lookup, copy, delete or publish; for
\* every event only the calls of its own outcome's function are issued.
C11_UnknownAcknowledged ==
    Entered =>
        /\ Outcome(event) = "Unknown" =>
              /\ Done
              /\ calls = <<>>
              /\ response.statusCode = 200
        /\ \A i \in 1..Len(calls) :
              /\ calls[i].api \in ApisOf(Outcome(event))
              /\ calls[i].api = "publish" =>
                    calls[i].args.Subject \in SubjectsOf(Outcome(event))

C11_Witness ==
    /\ Done
    /\ event.scan_status = SKIPPED
    /\ event.scan_result_status = None
    /\ event.object_key # None

\* C12: for essex-police with a prefixed target-bucket value the destination
\* key is  prefix/file_land_timestamp=<t>/base name  with t the epoch seconds
\* at which this event is dispatched.
C12_TimestampAtDispatch ==
    (Entered /\ Outcome(event) = "Clean" /\ WellFormedKey) =>
        \A g \in CallsTo("get_secret_value"), c \in CallsTo("copy_object") :
            (FirstSegment(event.object_key) = EssexPolice /\ HasSep(calls[g].result)) =>
                /\ now >= 0
                /\ calls[c].args.Key =
                      SubSeq(calls[g].result, FirstSep(calls[g].result) + 1,
                             Len(calls[g].result))
                      \o <<Sep, "file_land_timestamp=", ToString(now), Sep>>
                      \o BaseName(event.object_key)

\* A required field of the event is missing.
MissingField(ev) ==
    \/ ev.scan_status = None
    \/ ev.scan_status \in {COMPLETED, SKIPPED} /\ ev.scan_result_status = None
    \/ ev.bucket_name = None
    \/ ev.object_key = None

\* C13: an event with a required field missing gets a 500 and no copy, delete
\* or notification.
C13_MalformedEventRejected ==
    (Entered /\ MissingField(event)) =>
        /\ CallsTo("copy_object") = {}
        /\ CallsTo("delete_object") = {}
        /\ CallsTo("publish") = {}
        /\ Done => response.statusCode = 500

\* C14: when the lookup of the supplier's target bucket fails, the response is
\* a 500 and neither copy nor delete is issued.
C14_SupplierNotFound ==
    (Entered /\ Outcome(event) = "Clean"
        /\ \E g \in CallsTo("get_secret_value") : ~calls[g].ok) =>
        /\ Done
        /\ response.statusCode = 500
        /\ CallsTo("copy_object") = {}
        /\ CallsTo("delete_object") = {}

C14_Witness ==
    /\ Outcome(event) = "Clean"
    /\ Done
    /\ \E g \in CallsTo("get_secret_value") : ~calls[g].ok

\* A step of the invocation in hand: one collaborator call and what follows it.
HandlerStep ==
    \/ GetSecretValue
    \/ CopyObject
    \/ DeleteObject
    \/ GetCallerIdentity
    \/ Publish
    \/ PublishAP
\* The invocation in hand has neither returned nor been left.
Running == Entered /\ ~Done
StructuredResponse ==
    /\ response.statusCode \in {200, 403, 415, 500}
    /\ response.body # <<>>
NoEscapeNoReattempt ==
    /\ Entered => (Done \/ ENABLED HandlerStep)
    /\ Running => Len(calls) < 3
    /\ Done => StructuredResponse
    /\ \A i \in 1..Len(calls) :
          ~calls[i].ok => (i = Len(calls) /\ Done /\ response.statusCode = 500)

\* C15: every invocation ends with a {statusCode, body} response: while it
\* runs a next step is always possible, each step issues one more call or
\* returns, at most three calls are issued, no exception leaves the handler,
\* and a call that failed is the last call of its invocation.
C15_AlwaysStructuredResponse ==
    /\ []NoEscapeNoReattempt
    /\ [][Running => (pc' = "done" \/ Len(calls') = Len(calls) + 1)]_vars

C15_Witness ==
    /\ Done
    /\ Len(calls) = 2
    /\ ~calls[2].ok
    /\ StructuredResponse

\* C16: a Clean event delivered again after an attempt that copied and then
\* failed has its copy issued to the same destination bucket and key as the
\* first attempt's.
C16_RetrySameDestination ==
    (first # NoAttempt /\ Entered /\ event = first.event) =>
        \A c \in CallsTo("copy_object") :
            /\ calls[c].args.Bucket = first.Bucket
            /\ calls[c].args.Key = first.Key

\* C18: the copy reads, and the delete removes, the object the event names:
\* its bucket and its key.
C18_SourceIsEventObject ==
    (Entered /\ Outcome(event) = "Clean") =>
        /\ \A c \in CallsTo("copy_object") :
              calls[c].args.CopySource =
                  [Bucket |-> event.bucket_name, Key |-> event.object_key]
        /\ \A d \in CallsTo("delete_object") :
              calls[d].args = [Bucket |-> event.bucket_name, Key |-> event.object_key]

\* C19: the uploader's notice of an Infected, ScanFailed or Unsupported event
\* goes to the topic of the supplier named by the key's first segment, or to
\* the default topic when the key has no separator or an empty first segment;
\* the operations notice goes to the operations topic whatever the key.
C19_NotificationChannels ==
    (Entered /\ event.object_key # None) =>
        /\ Outcome(event) \in {"Infected", "ScanFailed", "Unsupported"} =>
              /\ Len(Published) >= 1 =>
                    /\ Published[1].args.TopicArn \in UploaderChannels(event.object_key)
                    /\ \A a \in CallsTo("get_caller_identity") :
                          Published[1].args.TopicArn =
                              <<"arn:aws:sns:eu-west-2:">> \o calls[a].result
                              \o <<":transfer-service-">> \o FirstSegment(event.object_key)
                    /\ (CallsTo("get_caller_identity") = {}) =>
                          Published[1].args.TopicArn = NOTIFICATION_TOPIC_ARN
              /\ (CallsTo("get_caller_identity") # {}) =>
                    (HasSep(event.object_key) /\ FirstSegment(event.object_key) # <<>>)
              /\ \A i \in 2..Len(Published) :
                    Published[i].args.TopicArn = AP_NOTIFICATION_TOPIC_ARN
        /\ Outcome(event) = "AccessDenied" =>
              \A i \in 1..Len(Published) :
                  Published[i].args.TopicArn = AP_NOTIFICATION_TOPIC_ARN

C19_Witness ==
    /\ Outcome(event) = "ScanFailed"
    /\ Done
    /\ event.object_key = <<"f">>
    /\ Len(Published) = 1
    /\ Published[1].args.TopicArn = NOTIFICATION_TOPIC_ARN

Mentions(text, key) ==
    \E i \in 1..Len(text) : i + Len(key) - 1 <= Len(text) /\ SubSeq(text, i, i + Len(key) - 1) = key
\* The calls a Clean event with a supplier segment in its key issues when it
\* is the only event in the process: each call's arguments follow from the
\* event, the value the lookup returned and the process's land timestamp.
CleanAsAlone(ev, cs, ts) ==
    /\ Len(cs) >= 1 =>
          /\ cs[1].api = "get_secret_value"
          /\ cs[1].args.SecretId =
                <<"ingestion", Sep, "sftp", Sep>> \o FirstSegment(ev.object_key)
                \o <<Sep, "target-bucket">>
    /\ Len(cs) >= 2 =>
          /\ cs[1].ok
          /\ HasSep(cs[1].result)
          /\ cs[2].api = "copy_object"
          /\ cs[2].args.CopySource = [Bucket |-> LANDING_BUCKET_NAME, Key |-> ev.object_key]
          /\ cs[2].args.Bucket = FirstSegment(cs[1].result)
          /\ cs[2].args.Key =
                SubSeq(cs[1].result, FirstSep(cs[1].result) + 1, Len(cs[1].result))
                \o (IF FirstSegment(ev.object_key) = EssexPolice
                    THEN <<Sep, "file_land_timestamp=", ToString(ts), Sep>>
                    ELSE <<Sep>>)
                \o BaseName(ev.object_key)
    /\ Len(cs) >= 3 =>
          /\ cs[2].ok
          /\ cs[3].api = "delete_object"
          /\ cs[3].args = [Bucket |-> LANDING_BUCKET_NAME, Key |-> ev.object_key]
    /\ Len(cs) <= 3
\* The notices of an event when it is the only event in the process.
NoticesAsAlone(ev, cs) ==
    \A i \in 1..Len(cs) :
        /\ cs[i].api \in ApisOf(Outcome(ev))
        /\ cs[i].api = "publish" =>
              /\ cs[i].args.Subject \in SubjectsOf(Outcome(ev))
              /\ Outcome(ev) # "Unsupported" => Mentions(cs[i].args.Message, ev.object_key)
              /\ cs[i].args.TopicArn \in
                    UploaderChannels(ev.object_key) \cup {AP_NOTIFICATION_TOPIC_ARN}
\* The response of an event when it is the only event in the process.
ResponseAsAlone(ev, cs, resp) ==
    /\ (\E i \in 1..Len(cs) : ~cs[i].ok) => resp.statusCode = 500
    /\ ((\A i \in 1..Len(cs) : cs[i].ok) /\ Outcome(ev) # "Clean") =>
          /\ resp.statusCode =
                (IF Outcome(ev) = "AccessDenied" THEN 403
                 ELSE IF Outcome(ev) = "Unsupported" THEN 415
                 ELSE IF Outcome(ev) = "ScanFailed" THEN 500
                 ELSE 200)
          /\ IF Outcome(ev) = "Unknown"
             THEN resp.body =
                      <<"Successfully processed scan status: ">> \o ev.scan_status
                      \o <<", result: ">> \o ev.scan_result_status
             ELSE Mentions(resp.body, ev.object_key)
    /\ ((\A i \in 1..Len(cs) : cs[i].ok) /\ Outcome(ev) = "Clean") =>
          /\ resp.statusCode = (IF Len(cs) = 3 THEN 200 ELSE 500)
          /\ Len(cs) = 3 => Mentions(resp.body, ev.object_key)
\* An invocation stands where it would stand had it run alone.
AsAlone(ctx) ==
    (ctx.pc \notin {"absent", "idle", "awaiting_redelivery"} /\ ctx.event.object_key # None) =>
        /\ IF Outcome(ctx.event) = "Clean"
           THEN HasSep(ctx.event.object_key) =>
                    CleanAsAlone(ctx.event, ctx.calls, timestamp_epoch)
           ELSE NoticesAsAlone(ctx.event, ctx.calls)
        /\ (Outcome(ctx.event) = "Clean" /\ ~HasSep(ctx.event.object_key)) =>
              ctx.calls = <<>>
        /\ ctx.pc = "done" => ResponseAsAlone(ctx.event, ctx.calls, ctx.response)
\* A step of one invocation leaves the other invocation and the process's
\* globals as they were.
NoSharedWrites ==
    /\ other' # other => (other' = Context /\ Context' = other)
    /\ (pc # "idle" \/ other.pc \notin {"absent", "idle"}) =>
          timestamp_epoch' = timestamp_epoch

\* C17: with two events in the process at once, under every interleaving of
\* their steps each invocation issues the calls and returns the response it
\* issues and returns alone, and no step of one invocation changes the other
\* invocation's state or the process's globals.
C17_InvocationsIndependent ==
    /\ [](AsAlone(Context) /\ AsAlone(other))
    /\ [][NoSharedWrites]_vars

C17_Witness ==
    /\ pc = "done"
    /\ other.pc = "done"
    /\ event.object_key # other.event.object_key
    /\ Outcome(event) = "Clean"
    /\ Outcome(other.event) = "Infected"
    /\ Len(calls) = 3
    /\ Len(other.calls) = 3
    /\ calls[3].ok
    /\ other.calls[3].ok
====
